---- MODULE Spec2Model ----
(***************************************************************************)
(* Git automation glue of the repository: branch naming (branch_manager),  *)
(* commit/push automation (git_automation), cloning (repo_clone) and the   *)
(* JSON history files the three components keep.                           *)
(*                                                                         *)
(* A Python str is a sequence of characters; a character is a one-letter   *)
(* TLA+ string, or a "U+xxxx" token for a character outside ASCII.         *)
(***************************************************************************)
EXTENDS Integers, Sequences, FiniteSets, TLC

VARIABLES
    bmTeam,      \* BranchManager.team_name   (instance default)
    bmLeader,    \* BranchManager.leader_name (instance default)
    nmCall,      \* the last naming call: its function, arguments and result
    head,        \* the working copy's current branch, or DETACHED
    heads,       \* the local branches (repo.heads)
    hasRemote,   \* whether the remote "origin" is configured (repo.remotes)
    tree,        \* working tree: modified / staged / untracked changes present
    commits,     \* number of commits made in the repository
    cloneDirs,   \* directories present under RepoCloner.base_dir
    bmRepo,      \* whether BranchManager.repo is set (not None)
    autoFile,    \* data/git_automation_history.json
    autoMem,     \* GitAutomation.automation_history
    branchFile,  \* data/branch_history.json
    branchMem,   \* BranchManager.branch_history
    cloneFile,   \* data/clone_history.json
    cloneMem,    \* RepoCloner.clone_history
    clock,       \* number of records created so far (their timestamps)
    lastOp,      \* the last operation: name, arguments, result, what it did
    writers      \* the processes appending to the automation history file

nameVars == <<bmTeam, bmLeader, nmCall>>

opVars == <<head, heads, hasRemote, tree, commits, cloneDirs, bmRepo,
            autoFile, autoMem, branchFile, branchMem, cloneFile, cloneMem,
            clock, lastOp, writers>>

vars == <<nameVars, opVars>>

----------------------------------------------------------------------------
(* Bounds of the model *)

MaxTeamLen == 3
MaxLeaderLen == 1
MaxEntries == 2
MaxCommits == 1
MaxRepos == 2
MaxWorkflowEntries == 4
MaxWriters == 2
MaxAppends == 3

----------------------------------------------------------------------------
(* Strings *)

\* Python's None, kept apart from every str (no character is "None").
NONE == <<"None">>

LowerLetters ==
    <<"a","b","c","d","e","f","g","h","i","j","k","l","m",
      "n","o","p","q","r","s","t","u","v","w","x","y","z">>

UpperLetters ==
    <<"A","B","C","D","E","F","G","H","I","J","K","L","M",
      "N","O","P","Q","R","S","T","U","V","W","X","Y","Z">>

Digits == {"0","1","2","3","4","5","6","7","8","9"}

Range(s) == {s[i] : i \in 1..Len(s)}

\* str.isspace(): the characters str.strip() removes from both ends.
IsSpace(ch) == ch \in {" ", "\t", "\n"}

\* str.isalnum() on one character.  U+01F0 (j with caron) is a letter;
\* U+030C (combining caron) is a mark, neither letter nor digit.
IsAlnum(ch) ==
    \/ ch \in Range(LowerLetters)
    \/ ch \in Range(UpperLetters)
    \/ ch \in Digits
    \/ ch = "U+01F0"

\* str.upper() on one character: a str, since Unicode's full case mapping
\* can expand a character (U+01F0 uppercases to "J" followed by U+030C).
UpperChar(ch) ==
    IF \E i \in 1..Len(LowerLetters) : LowerLetters[i] = ch
    THEN <<UpperLetters[CHOOSE i \in 1..Len(LowerLetters) : LowerLetters[i] = ch]>>
    ELSE IF ch = "U+01F0" THEN <<"J", "U+030C">>
    ELSE <<ch>>

RECURSIVE LStrip(_)
LStrip(s) ==
    IF s # <<>> /\ IsSpace(Head(s)) THEN LStrip(Tail(s)) ELSE s

RECURSIVE RStrip(_)
RStrip(s) ==
    IF s # <<>> /\ IsSpace(s[Len(s)]) THEN RStrip(SubSeq(s, 1, Len(s) - 1)) ELSE s

\* value.strip()
Strip(s) == RStrip(LStrip(s))

\* cleaned.replace(" ", "_")
ReplaceSpaces(s) == [i \in 1..Len(s) |-> IF s[i] = " " THEN "_" ELSE s[i]]

KeepChar(ch) == IsAlnum(ch) \/ ch = "_"

\* "".join(ch for ch in cleaned if ch.isalnum() or ch == "_")
RECURSIVE FilterName(_)
FilterName(s) ==
    IF s = <<>> THEN <<>>
    ELSE IF KeepChar(Head(s)) THEN <<Head(s)>> \o FilterName(Tail(s))
    ELSE FilterName(Tail(s))

\* cleaned.upper()
RECURSIVE Upper(_)
Upper(s) ==
    IF s = <<>> THEN <<>> ELSE UpperChar(Head(s)) \o Upper(Tail(s))

\* A plausible slip: punctuation replaced by an underscore instead of dropped.
NormalizeReplacing(value) ==
    IF value = NONE THEN <<>>
    ELSE Upper([i \in 1..Len(Strip(value)) |->
                  IF KeepChar(Strip(value)[i]) THEN Strip(value)[i] ELSE "_"])

\* BranchManager._normalize_name
Normalize(value) ==
    IF value = NONE THEN <<>>
    ELSE Upper(FilterName(ReplaceSpaces(Strip(value))))

\* Python truthiness of an optional str: None and "" are falsy.
Truthy(v) == v # NONE /\ v # <<>>

\* Python's `a or b`
Or(a, b) == IF Truthy(a) THEN a ELSE b

BRANCH_SUFFIX == <<"A","I","_","F","i","x">>

\* os.getenv("TEAM_NAME", "RAG_RAIDERS") with the variable unset
DEFAULT_TEAM_NAME == <<"R","A","G","_","R","A","I","D","E","R","S">>

\* os.getenv("LEADER_NAME", "DEO_PRAKASH") with the variable unset
DEFAULT_LEADER_NAME == <<"D","E","O","_","P","R","A","K","A","S","H">>

\* A plausible slip: `is None` in place of `or`, so "" is not defaulted.
GenerateBranchNameNoneOnly(selfTeam, selfLeader, team_name, leader_name) ==
    Normalize(IF team_name = NONE THEN selfTeam ELSE team_name) \o <<"_">>
        \o Normalize(IF leader_name = NONE THEN selfLeader ELSE leader_name)
        \o <<"_">> \o BRANCH_SUFFIX

\* BranchManager.generate_branch_name: f"{team}_{leader}_{self.BRANCH_SUFFIX}"
GenerateBranchName(selfTeam, selfLeader, team_name, leader_name) ==
    Normalize(Or(team_name, selfTeam)) \o <<"_">>
        \o Normalize(Or(leader_name, selfLeader)) \o <<"_">> \o BRANCH_SUFFIX

----------------------------------------------------------------------------
(* Values, exceptions and the world the operations act on *)

\* Return values, tagged by their Python type.
RNone == [t |-> "none", v |-> <<>>]
RBool(b) == [t |-> "bool", v |-> b]
RStr(s) == [t |-> "str", v |-> s]
RList(l) == [t |-> "list", v |-> l]
RDict(d) == [t |-> "dict", v |-> d]

\* bool(value) of a returned value
RTruthy(r) ==
    CASE r.t = "none" -> FALSE
      [] r.t = "bool" -> r.v
      [] r.t = "str"  -> r.v # <<>>
      [] r.t = "list" -> r.v # <<>>
      [] OTHER        -> TRUE

\* The result of running a piece of code in world w: it returns ret, or
\* raises exc ("none": it returned).
Return(w, r) == [w |-> w, ret |-> r, exc |-> "none"]
Raise(w, x) == [w |-> w, ret |-> RNone, exc |-> x]

\* `except Exception as e: logger.error(...); return sentinel`
CatchAll(b, sentinel) ==
    IF b.exc = "none" THEN b
    ELSE Return([b.w EXCEPT !.caught = Append(@, b.exc)], sentinel)

\* A handler that catches GitCommandError alone.
CatchGitOnly(b, sentinel) ==
    IF b.exc = "GitCommandError" THEN CatchAll(b, sentinel) ELSE b

\* The underlying Git calls.  At most one of them fails in an operation: the
\* first failure ends every operation, so no later call is reached.
Primitives ==
    {"checkout_base", "pull", "create_head", "checkout", "add", "commit",
     "push", "delete_head", "status", "clone", "rmtree"}

NoFailure == [at |-> "nowhere", kind |-> "none"]

Failures ==
    {NoFailure} \cup
    [at : Primitives, kind : {"GitCommandError", "Exception"}]

\* The exception the Git call `prim` raises under failure f ("none": it works).
Fails(f, prim) == IF f.at = prim THEN f.kind ELSE "none"

MAIN == <<"m","a","i","n">>
MASTER == <<"m","a","s","t","e","r">>
DEV == <<"d","e","v">>
ORIGIN == <<"o","r","i","g","i","n">>
UPSTREAM == <<"u","p","s","t","r","e","a","m">>

\* repo.active_branch raises TypeError on a detached HEAD.
DETACHED == <<"HEAD detached">>

\* repo.active_branch.name
ActiveBranch(w) ==
    IF w.head = DETACHED THEN Raise(w, "TypeError") ELSE Return(w, RStr(w.head))

\* datetime.now().isoformat() of a new record
Stamp(w) == w.clock + 1

Tick(w) == [w EXCEPT !.clock = @ + 1]

----------------------------------------------------------------------------
(* History files *)

FileKinds == {"missing", "blank", "malformed", "object", "array"}

ArrayFile(entries, writable) ==
    [kind |-> "array", data |-> entries, writable |-> writable]

\* The body of _save_operation / _save_to_file: read, parse, append, write.
\*   missing file, blank content -> existing_history = []
\*   malformed content           -> json.loads raises JSONDecodeError
\*   valid JSON, not a list      -> existing_history.append raises AttributeError
\*   write_text on a file that cannot be written raises OSError
AppendToFile(file, entry) ==
    CASE file.kind = "malformed" -> [file |-> file, exc |-> "JSONDecodeError"]
      [] file.kind = "object"    -> [file |-> file, exc |-> "AttributeError"]
      [] ~file.writable          -> [file |-> file, exc |-> "OSError"]
      [] OTHER ->
           [file |-> ArrayFile(Append(file.data, entry), TRUE), exc |-> "none"]

\* The first half of _save_operation / _save_to_file, up to the append: the
\* history read from the file, or what reading it raises.
ReadHistory(file) ==
    CASE file.kind = "malformed" -> [history |-> <<>>, exc |-> "JSONDecodeError"]
      [] file.kind = "object"    -> [history |-> <<>>, exc |-> "AttributeError"]
      [] file.kind = "array"     -> [history |-> file.data, exc |-> "none"]
      [] OTHER                   -> [history |-> <<>>, exc |-> "none"]

\* A plausible slip: the history read is dropped and the new record written
\* alone.
AppendedHistoryForgetful(existing_history, operation) == <<operation>>

\* existing_history.append(operation)
AppendedHistory(existing_history, operation) == Append(existing_history, operation)

\* history_file.write_text(json.dumps(history, indent=2))
OverwriteFile(file, entries) ==
    IF file.writable
    THEN [file |-> ArrayFile(entries, TRUE), exc |-> "none"]
    ELSE [file |-> file, exc |-> "OSError"]

\* `if not self.history_file.exists(): self.history_file.write_text("[]")`
EnsureFile(file) ==
    IF file.kind = "missing" THEN OverwriteFile(file, <<>>)
    ELSE [file |-> file, exc |-> "none"]

\* A plausible slip: the history read back is dropped, the file rewritten
\* with the new record alone.
SaveOperationForgetful(w, operation) ==
    LET b == AppendToFile([w.autoFile EXCEPT !.data = <<>>], operation)
        w1 == [w EXCEPT !.saves = @ + 1, !.autoFile = b.file]
    IN  CatchAll(IF b.exc = "none" THEN Return(w1, RNone) ELSE Raise(w1, b.exc), RNone)

\* A plausible slip: the body of _save_operation without its try/except.
SaveOperationUnguarded(w, operation) ==
    LET b == AppendToFile(w.autoFile, operation)
        w1 == [w EXCEPT !.saves = @ + 1, !.autoFile = b.file]
    IN  IF b.exc = "none" THEN Return(w1, RNone) ELSE Raise(w1, b.exc)

\* GitAutomation._save_operation
SaveOperation(w, operation) ==
    LET b == AppendToFile(w.autoFile, operation)
        w1 == [w EXCEPT !.saves = @ + 1, !.autoFile = b.file]
    IN  CatchAll(IF b.exc = "none" THEN Return(w1, RNone) ELSE Raise(w1, b.exc), RNone)

\* A plausible slip: the body of _save_to_file without its try/except.
SaveToFileUnguarded(w, branch_entry) ==
    LET b == AppendToFile(w.branchFile, branch_entry)
        w1 == [w EXCEPT !.saves = @ + 1, !.branchFile = b.file]
    IN  IF b.exc = "none" THEN Return(w1, RNone) ELSE Raise(w1, b.exc)

\* BranchManager._save_to_file
SaveToFile(w, branch_entry) ==
    LET b == AppendToFile(w.branchFile, branch_entry)
        w1 == [w EXCEPT !.saves = @ + 1, !.branchFile = b.file]
    IN  CatchAll(IF b.exc = "none" THEN Return(w1, RNone) ELSE Raise(w1, b.exc), RNone)

\* GitAutomation.save_automation_history
SaveAutomationHistory(w) ==
    LET b == OverwriteFile(w.autoFile, w.autoMem)
        w1 == [w EXCEPT !.autoFile = b.file]
    IN  CatchAll(IF b.exc = "none" THEN Return(w1, RNone) ELSE Raise(w1, b.exc), RNone)

\* BranchManager.save_branch_history
SaveBranchHistory(w) ==
    LET b == OverwriteFile(w.branchFile, w.branchMem)
        w1 == [w EXCEPT !.branchFile = b.file]
    IN  CatchAll(IF b.exc = "none" THEN Return(w1, RNone) ELSE Raise(w1, b.exc), RNone)

\* RepoCloner.save_clone_history: open(history_file, 'w') outside any try
SaveCloneHistory(w) ==
    LET b == OverwriteFile(w.cloneFile, w.cloneMem)
        w1 == [w EXCEPT !.cloneFile = b.file]
    IN  IF b.exc = "none" THEN Return(w1, RNone) ELSE Raise(w1, b.exc)

----------------------------------------------------------------------------
(* Branch operations: branch_manager.py *)

\* The Git call `prim` is made: it is logged before it can fail.
Git(w, prim) == [w EXCEPT !.gitCalls = Append(@, prim)]

BranchRecord(w, branch_name, base_branch) ==
    [action |-> "branch", ts |-> Stamp(w), status |-> "created",
     branch |-> branch_name]

\* A plausible slip: a branch that exists already is taken as done and is not
\* checked out.
CreateBranchBodyStaysOnBase(w, branch_name, base_branch, checkout, f) ==
    LET w0 == Git(w, "checkout_base")
        x0 == IF base_branch \notin w.heads THEN "GitCommandError"
              ELSE Fails(f, "checkout_base")
        w1 == [w0 EXCEPT !.head = base_branch]
        w2 == IF w.hasRemote THEN Git(w1, "pull") ELSE w1
        x2 == IF w.hasRemote THEN Fails(f, "pull") ELSE "none"
        exists == branch_name \in w.heads
        w3 == IF exists THEN w2
              ELSE [Git(w2, "create_head") EXCEPT !.heads = @ \cup {branch_name}]
        x3 == IF exists THEN "none" ELSE Fails(f, "create_head")
        w4 == IF checkout /\ ~exists
              THEN [Git(w3, "checkout") EXCEPT !.head = branch_name]
              ELSE w3
        x4 == IF checkout /\ ~exists THEN Fails(f, "checkout") ELSE "none"
        w5 == Tick([w4 EXCEPT !.branchMem =
                      Append(@, BranchRecord(w4, branch_name, base_branch))])
    IN  CASE x0 # "none" -> Raise(w0, x0)
          [] x2 # "none" -> Raise(w2, x2)
          [] x3 # "none" -> Raise(Git(w2, "create_head"), x3)
          [] x4 # "none" -> Raise(Git(w3, "checkout"), x4)
          [] OTHER       -> Return(w5, RBool(TRUE))

\* The try block of create_branch, from the checkout of the base branch on.
CreateBranchBody(w, branch_name, base_branch, checkout, f) ==
    LET w0 == Git(w, "checkout_base")
        x0 == IF base_branch \notin w.heads THEN "GitCommandError"
              ELSE Fails(f, "checkout_base")
        w1 == [w0 EXCEPT !.head = base_branch]
        w2 == IF w.hasRemote THEN Git(w1, "pull") ELSE w1
        x2 == IF w.hasRemote THEN Fails(f, "pull") ELSE "none"
        exists == branch_name \in w.heads
        w3 == IF exists THEN w2
              ELSE [Git(w2, "create_head") EXCEPT !.heads = @ \cup {branch_name}]
        x3 == IF exists THEN "none" ELSE Fails(f, "create_head")
        w4 == IF checkout THEN [Git(w3, "checkout") EXCEPT !.head = branch_name]
              ELSE w3
        x4 == IF checkout THEN Fails(f, "checkout") ELSE "none"
        w5 == Tick([w4 EXCEPT !.branchMem =
                      Append(@, BranchRecord(w4, branch_name, base_branch))])
    IN  CASE x0 # "none" -> Raise(w0, x0)
          [] x2 # "none" -> Raise(w2, x2)
          [] x3 # "none" -> Raise(Git(w2, "create_head"), x3)
          [] x4 # "none" -> Raise(Git(w3, "checkout"), x4)
          [] OTHER       -> Return(w5, RBool(TRUE))

\* BranchManager.create_branch
CreateBranch(w, branch_name, base_branch, checkout, f) ==
    IF ~w.bmRepo THEN Return(w, RBool(FALSE))
    ELSE CatchAll(
           CatchGitOnly(
             CreateBranchBody(w, branch_name, base_branch, checkout, f),
             RBool(FALSE)),
           RBool(FALSE))

\* BranchManager.create_ai_fix_branch
CreateAiFixBranch(w, selfTeam, selfLeader, team_name, leader_name, f) ==
    LET branch_name == GenerateBranchName(selfTeam, selfLeader, team_name, leader_name)
        r == CreateBranch(w, branch_name, MAIN, TRUE, f)
    IN  IF r.exc # "none" THEN r
        ELSE IF RTruthy(r.ret) THEN Return(r.w, RStr(branch_name))
        ELSE Return(r.w, RNone)

\* `pattern in b` on two strs
Contains(b, pattern) ==
    \E i \in 1..(Len(b) - Len(pattern) + 1) :
        SubSeq(b, i, i + Len(pattern) - 1) = pattern

RECURSIVE SetToSeq(_)
SetToSeq(S) ==
    IF S = {} THEN <<>>
    ELSE LET x == CHOOSE y \in S : TRUE IN <<x>> \o SetToSeq(S \ {x})

\* BranchManager.list_branches
ListBranches(w, pattern) ==
    IF ~w.bmRepo THEN Return(w, RList(<<>>))
    ELSE LET branches == IF Truthy(pattern)
                         THEN {b \in w.heads : Contains(b, pattern)}
                         ELSE w.heads
         IN  CatchAll(Return(Git(w, "heads"), RList(SetToSeq(branches))), RList(<<>>))

\* BranchManager.delete_branch
DeleteBranch(w, branch_name, force, f) ==
    IF ~w.bmRepo THEN Return(w, RBool(FALSE))
    ELSE LET w0 == Git(w, "delete_head")
             x == IF branch_name \notin w.heads \/ branch_name = w.head
                  THEN "GitCommandError" ELSE Fails(f, "delete_head")
             body == IF x # "none" THEN Raise(w0, x)
                     ELSE Return([w0 EXCEPT !.heads = @ \ {branch_name}], RBool(TRUE))
         IN  CatchAll(body, RBool(FALSE))

\* BranchManager.get_current_branch
GetCurrentBranch(w) ==
    IF ~w.bmRepo THEN Return(w, RNone) ELSE CatchAll(ActiveBranch(w), RNone)

BranchEntry(w, branch_name, issue_type) ==
    [action |-> "branch_entry", ts |-> Stamp(w), status |-> "created",
     branch |-> branch_name]

\* BranchManager.create_branch_entry
CreateBranchEntry(w, selfTeam, selfLeader, issue_type, team_name, leader_name) ==
    LET branch_name == GenerateBranchName(selfTeam, selfLeader, team_name, leader_name)
        branch_entry == BranchEntry(w, branch_name, issue_type)
        w1 == Tick([w EXCEPT !.branchMem = Append(@, branch_entry)])
        r == SaveToFile(w1, branch_entry)
    IN  IF r.exc # "none" THEN r ELSE Return(r.w, RDict(branch_entry))

----------------------------------------------------------------------------
(* Commit and push operations: git_automation.py *)

\* os.getenv("TEAM_NAME", "RIFT_ORGANISERS") with the variable unset
GA_TEAM_NAME == <<"R","I","F","T","_","O","R","G","A","N","I","S","E","R","S">>

\* os.getenv("LEADER_NAME", "SAIYAM_KUMAR") with the variable unset
GA_LEADER_NAME == <<"S","A","I","Y","A","M","_","K","U","M","A","R">>

MARKER == <<"[","A","I","-","A","G","E","N","T","]">>

StartsWith(s, prefix) ==
    Len(s) >= Len(prefix) /\ SubSeq(s, 1, Len(prefix)) = prefix

DigitChars == <<"1","2","3","4","5","6","7","8","9">>

\* commit.hexsha[:7] of the n-th commit made
ShortSha(n) == <<"0","0","0","0","0","0", DigitChars[n]>>

\* repo.is_dirty(): staged or modified tracked files; untracked files do not count
IsDirty(w) == w.tree.staged \/ w.tree.modified

\* GitAutomation.check_status
CheckStatus(w, f) ==
    LET b == ActiveBranch(w)
        w1 == Git(w, "status")
        x == Fails(f, "status")
        status == [branch |-> w.head, modified |-> w.tree.modified,
                   untracked |-> w.tree.untracked, staged |-> w.tree.staged,
                   clean |-> ~(IsDirty(w) \/ w.tree.untracked)]
        body == IF b.exc # "none" THEN b
                ELSE IF x # "none" THEN Raise(w1, x)
                ELSE Return(w1, RDict(status))
    IN  CatchAll(body, RNone)

\* GitAutomation.add_files; files is the list of paths, or None
AddFiles(w, files, add_all, f) ==
    LET w1 == Git(w, "add")
        x == Fails(f, "add")
        all == [w1 EXCEPT !.tree = [modified |-> FALSE, untracked |-> FALSE,
                   staged |-> w.tree.staged \/ w.tree.modified \/ w.tree.untracked]]
        some == [w1 EXCEPT !.tree = [modified |-> FALSE, untracked |-> w.tree.untracked,
                   staged |-> w.tree.staged \/ w.tree.modified]]
        body == IF add_all
                THEN IF x # "none" THEN Raise(w1, x) ELSE Return(all, RBool(TRUE))
                ELSE IF Truthy(files)
                THEN IF x # "none" THEN Raise(w1, x) ELSE Return(some, RBool(TRUE))
                ELSE Return(w, RBool(FALSE))
    IN  CatchAll(body, RBool(FALSE))

CommitRecord(w, commit_hash, message) ==
    [action |-> "commit", ts |-> Stamp(w), status |-> "committed",
     branch |-> w.head]

\* A plausible slip: the commit record is kept in memory and never handed to
\* _save_operation.
CommitBodyMemoryOnly(w, message, f) ==
    LET msg == IF StartsWith(message, MARKER) THEN message
               ELSE MARKER \o <<" ">> \o message
        w1 == Git(w, "commit")
        x == Fails(f, "commit")
        w2 == [w1 EXCEPT !.tree.staged = FALSE, !.commits = @ + 1,
                         !.committed = Append(@, msg)]
        commit_hash == ShortSha(w2.commits)
        b == ActiveBranch(w2)
        commit_record == CommitRecord(w2, commit_hash, msg)
        w3 == Tick([w2 EXCEPT !.autoMem = Append(@, commit_record)])
    IN  IF ~IsDirty(w) THEN Return(w, RNone)
        ELSE IF x # "none" THEN Raise(w1, x)
        ELSE IF b.exc # "none" THEN b
        ELSE Return(w3, RStr(commit_hash))

\* The try block of commit
CommitBody(w, message, f) ==
    LET msg == IF StartsWith(message, MARKER) THEN message
               ELSE MARKER \o <<" ">> \o message
        w1 == Git(w, "commit")
        x == Fails(f, "commit")
        w2 == [w1 EXCEPT !.tree.staged = FALSE, !.commits = @ + 1,
                         !.committed = Append(@, msg)]
        commit_hash == ShortSha(w2.commits)
        b == ActiveBranch(w2)
        commit_record == CommitRecord(w2, commit_hash, msg)
        w3 == Tick([w2 EXCEPT !.autoMem = Append(@, commit_record)])
        r == SaveOperation(w3, commit_record)
    IN  IF ~IsDirty(w) THEN Return(w, RNone)
        ELSE IF x # "none" THEN Raise(w1, x)
        ELSE IF b.exc # "none" THEN b
        ELSE IF r.exc # "none" THEN r
        ELSE Return(r.w, RStr(commit_hash))

\* GitAutomation.commit
Commit(w, message, f) == CatchAll(CommitBody(w, message, f), RNone)

PushRecord(w, remote, branch, force) ==
    [action |-> "push", ts |-> Stamp(w), status |-> "success", branch |-> branch]

\* `if branch in ["main", "master"]`
Protected(branch) == branch \in {MAIN, MASTER}

\* A plausible slip: the guard tests the argument before it is resolved, so
\* a push of the current branch is never refused.
PushBodyGuardFirst(w, remote, branch, force, f) ==
    LET b == ActiveBranch(w)
        target == IF branch = NONE THEN b.ret.v ELSE branch
        known == remote = ORIGIN /\ w.hasRemote
        w1 == [Git(w, "push") EXCEPT !.pushed = Append(@, target)]
        x == Fails(f, "push")
        push_record == PushRecord(w1, remote, target, force)
        w2 == Tick([w1 EXCEPT !.autoMem = Append(@, push_record)])
        r == SaveOperation(w2, push_record)
    IN  IF Protected(branch) THEN Return(w, RBool(FALSE))
        ELSE IF branch = NONE /\ b.exc # "none" THEN b
        ELSE IF ~known THEN Raise(w, "IndexError")
        ELSE IF x # "none" THEN Raise(w1, x)
        ELSE IF r.exc # "none" THEN r
        ELSE Return(r.w, RBool(TRUE))

\* The try block of push
PushBody(w, remote, branch, force, f) ==
    LET b == ActiveBranch(w)
        target == IF branch = NONE THEN b.ret.v ELSE branch
        known == remote = ORIGIN /\ w.hasRemote
        w1 == [Git(w, "push") EXCEPT !.pushed = Append(@, target)]
        x == Fails(f, "push")
        push_record == PushRecord(w1, remote, target, force)
        w2 == Tick([w1 EXCEPT !.autoMem = Append(@, push_record)])
        r == SaveOperation(w2, push_record)
    IN  IF branch = NONE /\ b.exc # "none" THEN b
        ELSE IF Protected(target) THEN Return(w, RBool(FALSE))
        ELSE IF ~known THEN Raise(w, "IndexError")
        ELSE IF x # "none" THEN Raise(w1, x)
        ELSE IF r.exc # "none" THEN r
        ELSE Return(r.w, RBool(TRUE))

\* A plausible slip: the second handler (`except Exception`) is missing.
PushGitOnly(w, remote, branch, force, f) ==
    CatchGitOnly(PushBody(w, remote, branch, force, f), RBool(FALSE))

\* GitAutomation.push
Push(w, remote, branch, force, f) ==
    CatchAll(CatchGitOnly(PushBody(w, remote, branch, force, f), RBool(FALSE)),
             RBool(FALSE))

\* GitAutomation.pull
Pull(w, remote, branch, f) ==
    LET b == ActiveBranch(w)
        known == remote = ORIGIN /\ w.hasRemote
        w1 == Git(w, "pull")
        x == Fails(f, "pull")
        body == IF branch = NONE /\ b.exc # "none" THEN b
                ELSE IF ~known THEN Raise(w, "IndexError")
                ELSE IF x # "none" THEN Raise(w1, x)
                ELSE Return(w1, RBool(TRUE))
    IN  CatchAll(body, RBool(FALSE))

\* os.getenv("DEFAULT_BRANCH", "main") with the variable unset
DEFAULT_BRANCH == MAIN

\* A plausible slip: the branch is created without being checked out, and
\* the working copy stays on the base branch.
EnsureAiFixBranchNoCheckout(w, selfTeam, selfLeader, team_name, leader_name, base_branch, f) ==
    LET base == IF base_branch = NONE THEN DEFAULT_BRANCH ELSE base_branch
        target_branch == GenerateBranchName(selfTeam, selfLeader,
                             Or(team_name, GA_TEAM_NAME), Or(leader_name, GA_LEADER_NAME))
        b == ActiveBranch(w)
        created == CreateBranch(w, target_branch, base, FALSE, f)
    IN  IF b.exc # "none" THEN b
        ELSE IF b.ret.v = target_branch THEN Return(w, RStr(target_branch))
        ELSE IF created.exc # "none" THEN created
        ELSE IF ~RTruthy(created.ret) THEN Raise(created.w, "RuntimeError")
        ELSE Return(created.w, RStr(target_branch))

\* GitAutomation.ensure_ai_fix_branch
EnsureAiFixBranch(w, selfTeam, selfLeader, team_name, leader_name, base_branch, f) ==
    LET base == IF base_branch = NONE THEN DEFAULT_BRANCH ELSE base_branch
        target_branch == GenerateBranchName(selfTeam, selfLeader,
                             Or(team_name, GA_TEAM_NAME), Or(leader_name, GA_LEADER_NAME))
        b == ActiveBranch(w)
        created == CreateBranch(w, target_branch, base, TRUE, f)
    IN  IF b.exc # "none" THEN b
        ELSE IF b.ret.v = target_branch THEN Return(w, RStr(target_branch))
        ELSE IF created.exc # "none" THEN created
        ELSE IF ~RTruthy(created.ret) THEN Raise(created.w, "RuntimeError")
        ELSE Return(created.w, RStr(target_branch))

Results(add, commit, push, w) ==
    RDict([add |-> add, commit |-> commit, push |-> push, timestamp |-> Stamp(w)])

Step(w, name) == [w EXCEPT !.steps = Append(@, name)]

\* A plausible slip: the workflow goes on to the push although the commit
\* returned nothing.
AutomatedCommitPushUngated(w, selfTeam, selfLeader, message, add_all, remote, f) ==
    LET e0 == EnsureAiFixBranch(Step(w, "ensure"), selfTeam, selfLeader,
                                NONE, NONE, NONE, f)
        r0 == CatchAll(e0, RNone)
        failed0 == e0.exc # "none"
        r1 == AddFiles(Step(r0.w, "add"), NONE, add_all, f)
        r2 == Commit(Step(r1.w, "commit"), message, f)
        r3 == Push(Step(r2.w, "push"), remote, NONE, FALSE, f)
    IN  IF r0.exc # "none" THEN r0
        ELSE IF failed0 THEN Return(r0.w, Results(FALSE, RNone, FALSE, w))
        ELSE IF r1.exc # "none" THEN r1
        ELSE IF ~RTruthy(r1.ret) THEN Return(r1.w, Results(FALSE, RNone, FALSE, w))
        ELSE IF r2.exc # "none" THEN r2
        ELSE IF r3.exc # "none" THEN r3
        ELSE Return(r3.w, Results(TRUE, r2.ret, RTruthy(r3.ret), w))

\* GitAutomation.automated_commit_push
AutomatedCommitPush(w, selfTeam, selfLeader, message, add_all, remote, f) ==
    LET e0 == EnsureAiFixBranch(Step(w, "ensure"), selfTeam, selfLeader,
                                NONE, NONE, NONE, f)
        r0 == CatchAll(e0, RNone)
        failed0 == e0.exc # "none"
        r1 == AddFiles(Step(r0.w, "add"), NONE, add_all, f)
        r2 == Commit(Step(r1.w, "commit"), message, f)
        r3 == Push(Step(r2.w, "push"), remote, NONE, FALSE, f)
    IN  IF r0.exc # "none" THEN r0
        ELSE IF failed0 THEN Return(r0.w, Results(FALSE, RNone, FALSE, w))
        ELSE IF r1.exc # "none" THEN r1
        ELSE IF ~RTruthy(r1.ret) THEN Return(r1.w, Results(FALSE, RNone, FALSE, w))
        ELSE IF r2.exc # "none" THEN r2
        ELSE IF ~RTruthy(r2.ret) THEN Return(r2.w, Results(TRUE, RNone, FALSE, w))
        ELSE IF r3.exc # "none" THEN r3
        ELSE Return(r3.w, Results(TRUE, r2.ret, RTruthy(r3.ret), w))

\* GitAutomation.create_ai_branch_and_commit; f is the Git call that fails
\* while the branch is created, g the one that fails in the workflow.
CreateAiBranchAndCommit(w, selfTeam, selfLeader, commit_message, team_name, leader_name, f, g) ==
    LET c == CreateAiFixBranch(w, selfTeam, selfLeader, team_name, leader_name, f)
        a == AutomatedCommitPush(c.w, selfTeam, selfLeader, commit_message,
                                 TRUE, ORIGIN, g)
    IN  IF c.exc # "none" THEN c
        ELSE IF ~RTruthy(c.ret)
             THEN Return(c.w, RDict([success |-> FALSE, branch |-> NONE]))
        ELSE IF a.exc # "none" THEN a
        ELSE Return(a.w, RDict([add |-> a.ret.v.add, commit |-> a.ret.v.commit,
                                push |-> a.ret.v.push,
                                timestamp |-> a.ret.v.timestamp,
                                branch |-> c.ret.v]))

----------------------------------------------------------------------------
(* Clone operations: repo_clone.py *)

RECURSIVE LastSegment(_)
\* repo_url.split('/')[-1]
LastSegment(url) ==
    IF \E i \in 1..Len(url) : url[i] = "/"
    THEN LastSegment(SubSeq(url, (CHOOSE i \in 1..Len(url) : url[i] = "/") + 1, Len(url)))
    ELSE url

DOT_GIT == <<".","g","i","t">>

RECURSIVE RemoveDotGit(_)
\* s.replace('.git', ''): every occurrence, left to right, not only a suffix
RemoveDotGit(s) ==
    IF s = <<>> THEN <<>>
    ELSE IF StartsWith(s, DOT_GIT) THEN RemoveDotGit(SubSeq(s, 5, Len(s)))
    ELSE <<Head(s)>> \o RemoveDotGit(Tail(s))

RepoName(repo_url) == RemoveDotGit(LastSegment(repo_url))

CloneRecord(w, repo_url, status) ==
    [action |-> "clone", ts |-> Stamp(w), status |-> status, branch |-> repo_url]

\* A directory under base_dir: its name and the files it holds.
Dir(name, files) == [name |-> name, files |-> files]

\* What a fresh clone of the repository holds
FreshFiles == {"README"}

\* What a copy left by an earlier run holds
PriorFiles == {"README", "marker"}

\* clone_path.exists(): an empty repo_name makes clone_path the base
\* directory itself, which __init__ created.
PathExists(w, repo_name) ==
    repo_name = <<>> \/ \E d \in w.cloneDirs : d.name = repo_name

\* shutil.rmtree(clone_path): the directory goes with all it holds; the base
\* directory goes with every clone in it.
RmTree(dirs, repo_name) ==
    IF repo_name = <<>> THEN {} ELSE {d \in dirs : d.name # repo_name}

\* A plausible slip: the directory that exists is not removed and the clone
\* lands beside the files of the prior copy.
CloneRepositoryKeepsPrior(w, repo_url, f) ==
    LET repo_name == RepoName(repo_url)
        prior == UNION {d.files : d \in {e \in w.cloneDirs : e.name = repo_name}}
        w2 == Git(w, "clone")
        x2 == Fails(f, "clone")
        ok == Tick([w2 EXCEPT
                      !.cloneDirs = RmTree(@, repo_name)
                                      \cup {Dir(repo_name, prior \cup FreshFiles)},
                      !.cloneMem = Append(@, CloneRecord(w2, repo_url, "success"))])
        failed == Tick([w2 EXCEPT
                      !.cloneMem = Append(@, CloneRecord(w2, repo_url, "failed"))])
    IN  IF x2 = "GitCommandError" THEN Raise(failed, x2)
        ELSE IF x2 # "none" THEN Raise(w2, x2)
        ELSE Return(ok, RStr(repo_name))

\* RepoCloner.clone_repository; the value returned stands for the Repo object
\* of the clone: the name of its directory.
CloneRepository(w, repo_url, f) ==
    LET repo_name == RepoName(repo_url)
        exists == PathExists(w, repo_name)
        w1 == IF exists THEN Git(w, "rmtree") ELSE w
        x1 == IF exists THEN Fails(f, "rmtree") ELSE "none"
        w2 == Git([w1 EXCEPT !.cloneDirs = RmTree(@, repo_name)], "clone")
        x2 == Fails(f, "clone")
        ok == Tick([w2 EXCEPT !.cloneDirs = @ \cup {Dir(repo_name, FreshFiles)},
                      !.cloneMem = Append(@, CloneRecord(w2, repo_url, "success"))])
        failed == Tick([w2 EXCEPT
                      !.cloneMem = Append(@, CloneRecord(w2, repo_url, "failed"))])
    IN  IF x1 # "none" THEN Raise(w1, "OSError")
        ELSE IF x2 = "GitCommandError" THEN Raise(failed, x2)
        ELSE IF x2 # "none" THEN Raise(w2, x2)
        ELSE Return(ok, RStr(repo_name))

\* One entry of the result list of clone_multiple
CloneResult(url, status) == [repo |-> url, status |-> status]

RECURSIVE CloneMultipleAborting(_, _, _, _)
\* A plausible slip: the loop is left at the first entry that fails.
CloneMultipleAborting(w, repo_list, fs, results) ==
    IF repo_list = <<>> THEN Return(w, RList(results))
    ELSE LET r == CloneRepository(w, Head(repo_list), Head(fs))
             c == CatchAll(r, RNone)
         IN  IF r.exc = "none"
             THEN CloneMultipleAborting(c.w, Tail(repo_list), Tail(fs),
                      Append(results, CloneResult(Head(repo_list), "success")))
             ELSE Return(c.w,
                      RList(Append(results, CloneResult(Head(repo_list), "failed"))))

RECURSIVE CloneMultipleFrom(_, _, _, _)
\* The loop of clone_multiple over the entries still to clone; fs gives, entry
\* by entry, the Git call that fails in its clone.
CloneMultipleFrom(w, repo_list, fs, results) ==
    IF repo_list = <<>> THEN Return(w, RList(results))
    ELSE LET r == CloneRepository(w, Head(repo_list), Head(fs))
             c == CatchAll(r, RNone)
             status == IF r.exc = "none" THEN "success" ELSE "failed"
         IN  CloneMultipleFrom(c.w, Tail(repo_list), Tail(fs),
                               Append(results, CloneResult(Head(repo_list), status)))

\* RepoCloner.clone_multiple; each entry of repo_list is the url of its dict
CloneMultiple(w, repo_list, fs) == CloneMultipleFrom(w, repo_list, fs, <<>>)

----------------------------------------------------------------------------
(* Construction *)

\* BranchManager.__init__(repo_path): the history file is created when absent
\* and the in-memory history starts empty.
NewBranchManager(w, repo_path) ==
    LET b == EnsureFile(w.branchFile)
        w1 == [w EXCEPT !.bmRepo = repo_path, !.branchFile = b.file,
                        !.branchMem = <<>>]
    IN  IF b.exc # "none" THEN Raise(w, b.exc) ELSE Return(w1, RNone)

\* GitAutomation.__init__: builds its BranchManager on the same repository,
\* creates its own history file when absent; any failure is logged and re-raised.
NewGitAutomation(w) ==
    LET r == NewBranchManager(w, TRUE)
        b == EnsureFile(r.w.autoFile)
        w1 == [r.w EXCEPT !.autoFile = b.file, !.autoMem = <<>>]
    IN  IF r.exc # "none" THEN r
        ELSE IF b.exc # "none" THEN Raise(r.w, b.exc)
        ELSE Return(w1, RNone)

\* RepoCloner.__init__
NewRepoCloner(w) == Return([w EXCEPT !.cloneMem = <<>>], RNone)

----------------------------------------------------------------------------
(* Inputs of the naming calls *)

Alphabet == {" ", "\t", "a", "7", "_", "-", "U+01F0"}

RECURSIVE StrsUpTo(_)
StrsUpTo(n) ==
    IF n = 0 THEN {<<>>}
    ELSE LET shorter == StrsUpTo(n - 1)
         IN  shorter \cup {Append(s, ch) : s \in shorter, ch \in Alphabet}

\* The argument pairs of the repository's tests (tests/test_git_automation.py).
ExRiftOrganisers == <<"R","I","F","T"," ","O","R","G","A","N","I","S","E","R","S">>
ExSaiyamKumar == <<"S","a","i","y","a","m"," ","K","u","m","a","r">>
ExRift2026 == <<"R","I","F","T","@","2","0","2","6">>
ExJohnDoe == <<"J","o","h","n","-","D","o","e">>
ExTeamOne == <<" "," ","T","e","a","m"," ","O","n","e"," ">>
ExLeaderOne == <<" ","L","e","a","d","e","r"," ","O","n","e"," ">>

ExamplePairs ==
    { <<ExRiftOrganisers, ExSaiyamKumar>>,
      <<ExRift2026, ExJohnDoe>>,
      <<ExTeamOne, ExLeaderOne>> }

TeamArgs == StrsUpTo(MaxTeamLen) \cup {NONE}
LeaderArgs == StrsUpTo(MaxLeaderLen) \cup {NONE}

ArgPairs == (TeamArgs \X LeaderArgs) \cup ExamplePairs

\* Names a BranchManager is constructed with (None: the class default).
CtorNames == {NONE, <<>>, <<"a", " ", "7">>}

----------------------------------------------------------------------------
(* Naming: the calls *)

NoCall == [fn |-> "none", team |-> NONE, leader |-> NONE, arg |-> NONE,
           ret |-> NONE, again |-> FALSE]

\* BranchManager.__init__: self.team_name = team_name or self.DEFAULT_TEAM_NAME
NewBranchManagerNames(team_name, leader_name) ==
    /\ nmCall.fn = "none"
    /\ bmTeam' = Or(team_name, DEFAULT_TEAM_NAME)
    /\ bmLeader' = Or(leader_name, DEFAULT_LEADER_NAME)
    /\ nmCall' = NoCall
    /\ UNCHANGED opVars

CallGenerateBranchName(team_name, leader_name) ==
    /\ nmCall.fn = "none"
    /\ nmCall' = [fn |-> "generate_branch_name",
                  team |-> team_name, leader |-> leader_name, arg |-> NONE,
                  ret |-> GenerateBranchName(bmTeam, bmLeader, team_name, leader_name),
                  again |-> FALSE]
    /\ UNCHANGED <<bmTeam, bmLeader>>
    /\ UNCHANGED opVars

CallNormalizeName(value) ==
    /\ nmCall.fn = "none"
    /\ nmCall' = [fn |-> "_normalize_name", team |-> NONE, leader |-> NONE,
                  arg |-> value, ret |-> Normalize(value), again |-> FALSE]
    /\ UNCHANGED <<bmTeam, bmLeader>>
    /\ UNCHANGED opVars

\* _normalize_name applied to the result of the previous _normalize_name call
CallNormalizeAgain ==
    /\ nmCall.fn = "_normalize_name"
    /\ ~nmCall.again
    /\ nmCall' = [fn |-> "_normalize_name", team |-> NONE, leader |-> NONE,
                  arg |-> nmCall.ret, ret |-> Normalize(nmCall.ret), again |-> TRUE]
    /\ UNCHANGED <<bmTeam, bmLeader>>
    /\ UNCHANGED opVars

\* The caller takes the result; the manager is ready for the next call.
NameReturn ==
    /\ nmCall.fn # "none"
    /\ nmCall' = NoCall
    /\ UNCHANGED <<bmTeam, bmLeader>>
    /\ UNCHANGED opVars

----------------------------------------------------------------------------
(* The operations as steps of the system *)

\* The world an operation starts in; what it logs about itself starts empty.
World ==
    [head |-> head, heads |-> heads, hasRemote |-> hasRemote, tree |-> tree,
     commits |-> commits, cloneDirs |-> cloneDirs,
     bmRepo |-> bmRepo,
     autoFile |-> autoFile, autoMem |-> autoMem,
     branchFile |-> branchFile, branchMem |-> branchMem,
     cloneFile |-> cloneFile, cloneMem |-> cloneMem, clock |-> clock,
     gitCalls |-> <<>>, pushed |-> <<>>, committed |-> <<>>, saves |-> 0,
     steps |-> <<>>, caught |-> <<>>]

\* No operation is running and no result is waiting for its caller.
NoOp == [op |-> "none", args |-> [none |-> TRUE], ret |-> RNone, exc |-> "none",
         gitCalls |-> <<>>, pushed |-> <<>>, committed |-> <<>>, saves |-> 0,
         steps |-> <<>>, caught |-> <<>>]

\* Operation `op` with arguments `args` ran to result r, the histories
\* holding at most `entries` records.
FinishWithin(op, args, r, entries) ==
    /\ lastOp.op = "none"
    /\ r.w.clock <= entries
    /\ r.w.commits <= MaxCommits
    /\ head' = r.w.head
    /\ heads' = r.w.heads
    /\ hasRemote' = r.w.hasRemote
    /\ tree' = r.w.tree
    /\ commits' = r.w.commits
    /\ cloneDirs' = r.w.cloneDirs
    /\ bmRepo' = r.w.bmRepo
    /\ autoFile' = r.w.autoFile
    /\ autoMem' = r.w.autoMem
    /\ branchFile' = r.w.branchFile
    /\ branchMem' = r.w.branchMem
    /\ cloneFile' = r.w.cloneFile
    /\ cloneMem' = r.w.cloneMem
    /\ clock' = r.w.clock
    /\ lastOp' = [op |-> op, args |-> args, ret |-> r.ret, exc |-> r.exc,
                  gitCalls |-> r.w.gitCalls, pushed |-> r.w.pushed,
                  committed |-> r.w.committed, saves |-> r.w.saves,
                  steps |-> r.w.steps, caught |-> r.w.caught]
    /\ UNCHANGED writers
    /\ UNCHANGED nameVars

Finish(op, args, r) == FinishWithin(op, args, r, MaxEntries)

FailuresAt(prims) ==
    {NoFailure} \cup [at : prims, kind : {"GitCommandError", "Exception"}]

\* The canonical branch of the GitAutomation defaults.
TARGET == GenerateBranchName(DEFAULT_TEAM_NAME, DEFAULT_LEADER_NAME,
                             GA_TEAM_NAME, GA_LEADER_NAME)

BranchArgs == {DEV, TARGET}

Messages ==
    {<<"f","i","x">>, MARKER \o <<" ","f","i","x">>, MARKER \o <<"f","i","x">>}

Urls ==
    { <<"h",":","/","/","x","/","r",".","g","i","t">>,
      <<"h",":","/","/","x","/","r">>,
      <<"h",":","/","/","x","/","a",".","g","i","t","h","u","b">>,
      <<"h",":","/","/","x","/","r","/">> }

DoCreateBranch ==
    \E branch_name \in BranchArgs, base_branch \in {MAIN},
       checkout \in BOOLEAN,
       f \in FailuresAt({"checkout_base", "pull", "create_head", "checkout"}) :
        Finish("create_branch",
               [branch_name |-> branch_name, base_branch |-> base_branch,
                checkout |-> checkout],
               CreateBranch(World, branch_name, base_branch, checkout, f))

DoListBranches ==
    \E pattern \in {NONE, <<>>, <<"_","A","I","_","F","i","x">>, <<"m","a">>} :
        Finish("list_branches", [pattern |-> pattern],
               ListBranches(World, pattern))

DoDeleteBranch ==
    \E branch_name \in BranchArgs, force \in BOOLEAN,
       f \in FailuresAt({"delete_head"}) :
        Finish("delete_branch", [branch_name |-> branch_name, force |-> force],
               DeleteBranch(World, branch_name, force, f))

DoGetCurrentBranch ==
    Finish("get_current_branch", [none |-> TRUE], GetCurrentBranch(World))

DoCreateBranchEntry ==
    \E issue_type \in {NONE, <<"b","u","g">>}, team_name \in {NONE, <<"a"," ","7">>} :
        Finish("create_branch_entry",
               [issue_type |-> issue_type, team_name |-> team_name],
               CreateBranchEntry(World, bmTeam, bmLeader, issue_type, team_name, NONE))

DoSaveBranchHistory ==
    Finish("save_branch_history", [none |-> TRUE], SaveBranchHistory(World))

DoCheckStatus ==
    \E f \in FailuresAt({"status"}) :
        Finish("check_status", [none |-> TRUE], CheckStatus(World, f))

DoAddFiles ==
    \E files \in {NONE, <<>>, <<"a",".","p","y">>}, add_all \in BOOLEAN,
       f \in FailuresAt({"add"}) :
        Finish("add_files", [files |-> files, add_all |-> add_all],
               AddFiles(World, files, add_all, f))

DoCommit ==
    \E message \in Messages, f \in FailuresAt({"commit"}) :
        Finish("commit", [message |-> message],
               Commit(World, message, f))

DoPush ==
    \E remote \in {ORIGIN, UPSTREAM}, branch \in {NONE, MAIN, MASTER, DEV},
       force \in BOOLEAN, f \in FailuresAt({"push"}) :
        Finish("push",
               [remote |-> remote, branch |-> branch, force |-> force],
               Push(World, remote, branch, force, f))

DoPull ==
    \E remote \in {ORIGIN, UPSTREAM}, branch \in {NONE, MAIN},
       f \in FailuresAt({"pull"}) :
        Finish("pull", [remote |-> remote, branch |-> branch],
               Pull(World, remote, branch, f))

DoAutomatedCommitPush ==
    \E message \in {<<"f","i","x">>}, add_all \in BOOLEAN, remote \in {ORIGIN},
       f \in FailuresAt({"checkout_base", "pull", "create_head", "checkout",
                         "add", "commit", "push"}) :
        Finish("automated_commit_push",
               [message |-> message, add_all |-> add_all, remote |-> remote],
               AutomatedCommitPush(World, bmTeam, bmLeader, message, add_all, remote, f))

DoEnsureAiFixBranch ==
    \E names \in {<<NONE, NONE>>, <<<<"a", " ", "7">>, NONE>>},
       base_branch \in {NONE, DEV},
       f \in {NoFailure, [at |-> "create_head", kind |-> "Exception"]} :
        Finish("ensure_ai_fix_branch",
               [team_name |-> names[1], leader_name |-> names[2],
                base_branch |-> base_branch],
               EnsureAiFixBranch(World, bmTeam, bmLeader, names[1], names[2],
                                 base_branch, f))

\* The names create_ai_branch_and_commit is given: none, names of the
\* caller's own, the names GitAutomation defaults to.
WorkflowNames ==
    {<<NONE, NONE>>, <<<<"a", " ", "7">>, <<"a", " ", "7">>>>,
     <<ExRiftOrganisers, ExSaiyamKumar>>}

DoCreateAiBranchAndCommit ==
    \E names \in WorkflowNames,
       f \in {NoFailure, [at |-> "create_head", kind |-> "GitCommandError"]},
       g \in {NoFailure, [at |-> "commit", kind |-> "GitCommandError"]} :
        FinishWithin("create_ai_branch_and_commit",
               [commit_message |-> <<"f","i","x">>,
                team_name |-> names[1], leader_name |-> names[2]],
               CreateAiBranchAndCommit(World, bmTeam, bmLeader, <<"f","i","x">>,
                                       names[1], names[2], f, g),
               MaxWorkflowEntries)

\* automated_commit_push with room in the histories for the records of a
\* whole run: the branch, the commit, the push.
DoWorkflowCommitPush ==
    \E f \in {NoFailure, [at |-> "checkout", kind |-> "GitCommandError"],
              [at |-> "push", kind |-> "GitCommandError"]} :
        FinishWithin("automated_commit_push",
               [message |-> <<"f","i","x">>, add_all |-> TRUE, remote |-> ORIGIN],
               AutomatedCommitPush(World, bmTeam, bmLeader, <<"f","i","x">>,
                                   TRUE, ORIGIN, f),
               MaxWorkflowEntries)

DoSaveAutomationHistory ==
    Finish("save_automation_history", [none |-> TRUE], SaveAutomationHistory(World))

\* The failures of one clone: none, the removal of the directory, the clone.
CloneFailures ==
    {NoFailure, [at |-> "rmtree", kind |-> "Exception"]}
        \cup [at : {"clone"}, kind : {"GitCommandError", "Exception"}]

DoCloneRepository ==
    \E repo_url \in Urls, f \in CloneFailures :
        Finish("clone_repository", [repo_url |-> repo_url],
               CloneRepository(World, repo_url, f))

\* The URLs of the entries of a batch
BatchUrls ==
    { <<"h",":","/","/","x","/","r",".","g","i","t">>,
      <<"h",":","/","/","x","/","a",".","g","i","t","h","u","b">> }

\* The sequences over S of length n
SeqsOfLen(S, n) == [1..n -> S]

\* The lists clone_multiple is given: up to MaxRepos entries.
RepoLists == UNION {SeqsOfLen(BatchUrls, n) : n \in 0..MaxRepos}

DoCloneMultiple ==
    \E repo_list \in RepoLists :
        \E fs \in SeqsOfLen(CloneFailures, Len(repo_list)) :
            Finish("clone_multiple", [repo_list |-> repo_list],
                   CloneMultiple(World, repo_list, fs))

DoSaveCloneHistory ==
    Finish("save_clone_history", [none |-> TRUE], SaveCloneHistory(World))

DoNewBranchManager ==
    \E repo_path \in BOOLEAN :
        Finish("BranchManager", [repo_path |-> repo_path],
               NewBranchManager(World, repo_path))

DoNewGitAutomation ==
    Finish("GitAutomation", [none |-> TRUE], NewGitAutomation(World))

DoNewRepoCloner ==
    Finish("RepoCloner", [none |-> TRUE], NewRepoCloner(World))

\* The developer (or the agent) changes files of the working copy between
\* two operations: a tracked file is modified and a new file appears.
WorkOnFiles ==
    /\ lastOp.op = "none"
    /\ ~(tree.modified /\ tree.untracked)
    /\ tree' = [tree EXCEPT !.modified = TRUE, !.untracked = TRUE]
    /\ UNCHANGED <<head, heads, hasRemote, commits, cloneDirs,
                   bmRepo, autoFile, autoMem, branchFile, branchMem,
                   cloneFile, cloneMem, clock, lastOp, writers>>
    /\ UNCHANGED nameVars

\* The caller takes the result of the operation; the next one can start.
ReturnToCaller ==
    /\ lastOp.op # "none"
    /\ lastOp' = NoOp
    /\ UNCHANGED <<head, heads, hasRemote, tree, commits, cloneDirs,
                   bmRepo, autoFile, autoMem, branchFile, branchMem,
                   cloneFile, cloneMem, clock, writers>>
    /\ UNCHANGED nameVars

----------------------------------------------------------------------------
(* Processes appending to one history file *)

\* No record: what a writer holds between two appends.
NoEntry == [action |-> "none", ts |-> 0, status |-> "none", branch |-> <<>>]

\* A process that runs _save_operation: where it is (idle, or loaded: the
\* file read and not yet written back), the history it read, the record it
\* appends, the records it saved without error, the saves that raised, and
\* whether one of its saves ran while another process was between its read
\* and its write.
IdleWriter ==
    [pc |-> "idle", existing_history |-> <<>>, operation |-> NoEntry,
     saved |-> <<>>, errors |-> 0, overlap |-> FALSE]

\* Process p enters _save_operation with a new record and reads the file;
\* what the read raises is caught and ends the save.
WriterRead(p) ==
    /\ writers[p].pc = "idle"
    /\ clock < MaxAppends
    /\ LET operation == CommitRecord(World, ShortSha(1), MARKER)
           r == ReadHistory(autoFile)
           others == {q \in DOMAIN writers : q # p /\ writers[q].pc = "loaded"}
       IN  writers' =
             IF r.exc # "none"
             THEN [writers EXCEPT ![p].errors = @ + 1]
             ELSE [q \in DOMAIN writers |->
                     IF q = p
                     THEN [writers[p] EXCEPT !.pc = "loaded",
                                             !.existing_history = r.history,
                                             !.operation = operation,
                                             !.overlap = @ \/ others # {}]
                     ELSE IF q \in others
                          THEN [writers[q] EXCEPT !.overlap = TRUE]
                          ELSE writers[q]]
    /\ clock' = clock + 1
    /\ UNCHANGED <<head, heads, hasRemote, tree, commits, cloneDirs, bmRepo,
                   autoFile, autoMem, branchFile, branchMem, cloneFile,
                   cloneMem, lastOp>>
    /\ UNCHANGED nameVars

\* Process p writes back the history it read with its record appended; what
\* the write raises is caught.
WriterWrite(p) ==
    /\ writers[p].pc = "loaded"
    /\ LET b == OverwriteFile(autoFile,
                     AppendedHistory(writers[p].existing_history, writers[p].operation))
       IN  /\ autoFile' = b.file
           /\ writers' =
                 IF b.exc = "none"
                 THEN [writers EXCEPT ![p].pc = "idle",
                                      ![p].saved = Append(@, writers[p].operation),
                                      ![p].existing_history = <<>>,
                                      ![p].operation = NoEntry]
                 ELSE [writers EXCEPT ![p].pc = "idle",
                                      ![p].errors = @ + 1,
                                      ![p].existing_history = <<>>,
                                      ![p].operation = NoEntry]
    /\ UNCHANGED <<head, heads, hasRemote, tree, commits, cloneDirs, bmRepo,
                   autoMem, branchFile, branchMem, cloneFile, cloneMem, clock,
                   lastOp>>
    /\ UNCHANGED nameVars

----------------------------------------------------------------------------
(* Initial states and specifications *)

EmptyFile(kind, writable) == [kind |-> kind, data |-> <<>>, writable |-> writable]

\* A history file as a run may find it: absent, blank, not JSON, a JSON value
\* that is no array, or an (empty) array; writable or not.
FileStates == {EmptyFile(k, wr) : k \in FileKinds, wr \in BOOLEAN}

HealthyFile == EmptyFile("array", TRUE)

\* At most one of the two history files is in an unusual condition.
FileProfiles ==
    {<<a, HealthyFile>> : a \in FileStates}
      \cup {<<HealthyFile, b>> : b \in FileStates}

CleanTree == [modified |-> FALSE, staged |-> FALSE, untracked |-> FALSE]
DirtyTree == [modified |-> TRUE, staged |-> FALSE, untracked |-> TRUE]
StagedTree == [modified |-> FALSE, staged |-> TRUE, untracked |-> FALSE]

\* The repositories an operation is started on.  A BranchManager without a
\* repository (bmRepo FALSE) is one built by BranchManager() on its own.
RepoProfiles ==
    { [heads |-> {MAIN}, head |-> MAIN, hasRemote |-> TRUE, bmRepo |-> TRUE,
       tree |-> DirtyTree],
      [heads |-> {MAIN}, head |-> DETACHED, hasRemote |-> TRUE, bmRepo |-> TRUE,
       tree |-> CleanTree],
      [heads |-> {MASTER, DEV}, head |-> MASTER, hasRemote |-> TRUE, bmRepo |-> TRUE,
       tree |-> DirtyTree],
      [heads |-> {MAIN, DEV}, head |-> DEV, hasRemote |-> FALSE, bmRepo |-> TRUE,
       tree |-> DirtyTree],
      [heads |-> {MAIN, TARGET}, head |-> TARGET, hasRemote |-> TRUE, bmRepo |-> TRUE,
       tree |-> StagedTree],
      [heads |-> {MAIN}, head |-> MAIN, hasRemote |-> FALSE, bmRepo |-> FALSE,
       tree |-> CleanTree] }

RepoInit(rp) ==
    /\ heads = rp.heads /\ head = rp.head
    /\ hasRemote = rp.hasRemote
    /\ bmRepo = rp.bmRepo
    /\ tree = rp.tree
    /\ commits = 0
    /\ cloneDirs = {}
    /\ autoMem = <<>>
    /\ branchMem = <<>>
    /\ cloneMem = <<>>
    /\ clock = 0
    /\ lastOp = NoOp

OpInit ==
    /\ \E rp \in RepoProfiles : RepoInit(rp)
    /\ writers = <<>>
    /\ autoFile = HealthyFile /\ branchFile = HealthyFile /\ cloneFile = HealthyFile

HistoryRepo ==
    [heads |-> {MAIN, DEV}, head |-> DEV, hasRemote |-> TRUE, bmRepo |-> TRUE,
     tree |-> DirtyTree]

HistoryInit ==
    /\ bmTeam = DEFAULT_TEAM_NAME
    /\ bmLeader = DEFAULT_LEADER_NAME
    /\ nmCall = NoCall
    /\ RepoInit(HistoryRepo)
    /\ \E fp \in FileProfiles : autoFile = fp[1] /\ branchFile = fp[2]
    /\ cloneFile = HealthyFile
    /\ writers = <<>>

\* The repository and the files while only names are computed.
OpQuiet ==
    /\ heads = {MAIN} /\ head = MAIN
    /\ hasRemote = TRUE
    /\ tree = [modified |-> FALSE, staged |-> FALSE, untracked |-> FALSE]
    /\ commits = 0
    /\ cloneDirs = {}
    /\ bmRepo = TRUE
    /\ autoFile = HealthyFile /\ branchFile = HealthyFile /\ cloneFile = HealthyFile
    /\ autoMem = <<>> /\ branchMem = <<>> /\ cloneMem = <<>>
    /\ clock = 0
    /\ lastOp = NoOp
    /\ writers = <<>>

NameInit ==
    /\ bmTeam = DEFAULT_TEAM_NAME
    /\ bmLeader = DEFAULT_LEADER_NAME
    /\ nmCall = NoCall
    /\ OpQuiet

NameNext ==
    \/ \E t \in CtorNames, l \in CtorNames : NewBranchManagerNames(t, l)
    \/ \E p \in ArgPairs : CallGenerateBranchName(p[1], p[2])
    \/ \E v \in TeamArgs : CallNormalizeName(v)
    \/ CallNormalizeAgain
    \/ NameReturn

\* Naming alone: _normalize_name and generate_branch_name on bounded inputs.
SpecName == NameInit /\ [][NameNext]_vars

Init ==
    /\ bmTeam = DEFAULT_TEAM_NAME
    /\ bmLeader = DEFAULT_LEADER_NAME
    /\ nmCall = NoCall
    /\ OpInit

Next ==
    \/ DoCreateBranch
    \/ DoListBranches
    \/ DoDeleteBranch
    \/ DoGetCurrentBranch
    \/ DoCheckStatus
    \/ DoAddFiles
    \/ DoCommit
    \/ DoPush
    \/ DoPull
    \/ DoAutomatedCommitPush
    \/ WorkOnFiles
    \/ ReturnToCaller

\* The branch and the commit/push operations on one repository.
Spec == Init /\ [][Next]_vars

HistoryNext ==
    \/ DoCreateBranchEntry
    \/ DoSaveBranchHistory
    \/ DoNewBranchManager
    \/ DoCommit
    \/ DoPush
    \/ DoSaveAutomationHistory
    \/ DoNewGitAutomation
    \/ ReturnToCaller

WorkflowNext ==
    \/ DoEnsureAiFixBranch
    \/ DoCreateAiBranchAndCommit
    \/ DoWorkflowCommitPush
    \/ ReturnToCaller

\* The operations that put the repository on the AI fix branch.
SpecWorkflow == Init /\ [][WorkflowNext]_vars

WritersInit ==
    /\ bmTeam = DEFAULT_TEAM_NAME
    /\ bmLeader = DEFAULT_LEADER_NAME
    /\ nmCall = NoCall
    /\ RepoInit(HistoryRepo)
    /\ autoFile \in FileStates
    /\ branchFile = HealthyFile /\ cloneFile = HealthyFile
    /\ \E n \in 1..MaxWriters : writers = [p \in 1..n |-> IdleWriter]

DoWriterRead == \E p \in DOMAIN writers : WriterRead(p)

DoWriterWrite == \E p \in DOMAIN writers : WriterWrite(p)

WritersNext ==
    \/ DoWriterRead
    \/ DoWriterWrite

\* One or several processes appending to the automation history file, the
\* reads and the writes of their saves interleaved.
SpecWriters == WritersInit /\ [][WritersNext]_vars

\* The operations that write the branch and the automation history files.
SpecHistory == HistoryInit /\ [][HistoryNext]_vars

CloneInit ==
    /\ bmTeam = DEFAULT_TEAM_NAME
    /\ bmLeader = DEFAULT_LEADER_NAME
    /\ nmCall = NoCall
    /\ heads = {MAIN} /\ head = MAIN
    /\ hasRemote = TRUE
    /\ tree = [modified |-> FALSE, staged |-> FALSE, untracked |-> FALSE]
    /\ commits = 0
    /\ cloneDirs \in SUBSET {Dir(<<"r">>, PriorFiles)}
    /\ bmRepo = TRUE
    /\ autoFile = HealthyFile /\ branchFile = HealthyFile
    /\ cloneFile \in FileStates
    /\ autoMem = <<>> /\ branchMem = <<>> /\ cloneMem = <<>>
    /\ clock = 0
    /\ lastOp = NoOp
    /\ writers = <<>>

CloneNext ==
    \/ DoCloneRepository
    \/ DoCloneMultiple
    \/ DoSaveCloneHistory
    \/ DoNewRepoCloner
    \/ ReturnToCaller

\* The clone operations and the clone history.
SpecClone == CloneInit /\ [][CloneNext]_vars

----------------------------------------------------------------------------
(* Naming: the claims *)

\* The normalisation N as the specification words it: trim the surrounding
\* whitespace, turn each space into an underscore, delete what is neither
\* letter, digit nor underscore, uppercase.
ClaimTrim(s) ==
    LET solid == {i \in 1..Len(s) : ~IsSpace(s[i])}
    IN  IF solid = {} THEN <<>>
        ELSE SubSeq(s, CHOOSE i \in solid : \A j \in solid : i <= j,
                       CHOOSE i \in solid : \A j \in solid : i >= j)

ClaimUpper(s) ==
    LET piece(i) == UpperChar(s[i])
        RECURSIVE upto(_)
        upto(n) == IF n = 0 THEN <<>> ELSE upto(n - 1) \o piece(n)
    IN  upto(Len(s))

ClaimN(s) ==
    LET trimmed == ClaimTrim(s)
        spaced == [i \in 1..Len(trimmed) |->
                     IF trimmed[i] = " " THEN "_" ELSE trimmed[i]]
        kept == SelectSeq(spaced, LAMBDA ch : IsAlnum(ch) \/ ch = "_")
    IN  ClaimUpper(kept)

ClaimSuffix == <<"_","A","I","_","F","i","x">>

ExpectedRift ==
    <<"R","I","F","T","_","O","R","G","A","N","I","S","E","R","S","_",
      "S","A","I","Y","A","M","_","K","U","M","A","R","_","A","I","_","F","i","x">>

ExpectedRift2026 ==
    <<"R","I","F","T","2","0","2","6","_","J","O","H","N","D","O","E",
      "_","A","I","_","F","i","x">>

\* C9 as stated: for every team and leader string the branch name is
\* N(team) + "_" + N(leader) + "_AI_Fix"; only an absent argument is replaced
\* by the instance default.
C9_AsStated ==
    nmCall.fn = "generate_branch_name" =>
        LET team == IF nmCall.team = NONE THEN bmTeam ELSE nmCall.team
            leader == IF nmCall.leader = NONE THEN bmLeader ELSE nmCall.leader
        IN  nmCall.ret = ClaimN(team) \o <<"_">> \o ClaimN(leader) \o ClaimSuffix

\* C9 amended: for every non-empty team and leader string the branch name is
\* N(team) + "_" + N(leader) + "_AI_Fix"; an absent or empty argument is
\* replaced by the instance default before N is applied; the suffix keeps its
\* mixed case; the two examples of the claim give the names it states.
C9_BranchName ==
    nmCall.fn = "generate_branch_name" =>
        LET team == IF nmCall.team \in {NONE, <<>>} THEN bmTeam ELSE nmCall.team
            leader == IF nmCall.leader \in {NONE, <<>>} THEN bmLeader ELSE nmCall.leader
        IN  /\ nmCall.ret = ClaimN(team) \o <<"_">> \o ClaimN(leader) \o ClaimSuffix
            /\ (nmCall.team = ExRiftOrganisers /\ nmCall.leader = ExSaiyamKumar)
                   => nmCall.ret = ExpectedRift
            /\ (nmCall.team = ExRift2026 /\ nmCall.leader = ExJohnDoe)
                   => nmCall.ret = ExpectedRift2026

\* A branch name generated from a team with punctuation and an inner space
\* and from an empty leader, by a manager built with names of its own.
C9_Witness ==
    /\ nmCall.fn = "generate_branch_name"
    /\ nmCall.team = <<"a", " ", "-">>
    /\ nmCall.leader = <<>>
    /\ bmLeader = <<"a", " ", "7">>
    /\ nmCall.ret = <<"A","_","_","A","_","7","_","A","I","_","F","i","x">>

\* C10: name normalisation is idempotent: normalising the result of
\* _normalize_name again returns it unchanged.
C10_Idempotent ==
    (nmCall.fn = "_normalize_name" /\ nmCall.again) => nmCall.ret = nmCall.arg

----------------------------------------------------------------------------
(* Commit, push and the workflow: the claims *)

\* The branch a push is aimed at: the branch argument, or the current branch
\* when the argument is None.  push leaves the current branch as it is.
PushTarget == IF lastOp.args.branch = NONE THEN head ELSE lastOp.args.branch

\* C1: whenever the resolved target of push(remote, branch, force) is exactly
\* "main" or "master", push returns False and the remote's push is never
\* invoked, whatever force, remote and the state of the repository.
C1_ProtectedPush ==
    (lastOp.op = "push" /\ PushTarget \in {MAIN, MASTER}) =>
        /\ lastOp.ret = RBool(FALSE)
        /\ lastOp.pushed = <<>>
        /\ "push" \notin Range(lastOp.gitCalls)

\* A forced push of the current branch, which is master, with origin configured.
C1_Witness ==
    /\ lastOp.op = "push"
    /\ lastOp.args.branch = NONE
    /\ lastOp.args.force
    /\ lastOp.args.remote = ORIGIN
    /\ head = MASTER
    /\ hasRemote
    /\ lastOp.ret = RBool(FALSE)

LastOf(seq) == seq[Len(seq)]

AllSteps == <<"ensure", "add", "commit", "push">>

\* The fields of the workflow's result that speak of its steps.
StepFields(ret) == <<ret.v.add, ret.v.commit, ret.v.push>>

\* C6: automated_commit_push runs ensure-branch, stage, commit, push in this
\* order and attempts a step only when every earlier one succeeded: no stage
\* unless the working copy is on the AI fix branch, no commit unless the
\* changes were staged, no push unless a commit was made; in the result
\* push = True implies a non-empty commit identifier, which implies add = True.
C6_StepGating ==
    lastOp.op = "automated_commit_push" =>
        /\ \E n \in 1..4 : lastOp.steps = SubSeq(AllSteps, 1, n)
        /\ "add" \in Range(lastOp.steps) => head = TARGET
        /\ head # TARGET => lastOp.gitCalls # <<>> \/ lastOp.caught # <<>>
        /\ "commit" \in Range(lastOp.steps) =>
              /\ lastOp.args.add_all
              /\ "add" \in Range(lastOp.gitCalls)
              /\ ~tree.modified /\ ~tree.untracked
        /\ "push" \in Range(lastOp.steps) =>
              /\ lastOp.committed # <<>>
              /\ commits > 0
        /\ lastOp.ret.v.push = TRUE =>
              /\ lastOp.ret.v.commit.t = "str"
              /\ lastOp.ret.v.commit.v # <<>>
        /\ lastOp.ret.v.commit # RNone => lastOp.ret.v.add = TRUE

\* The workflow staged the changes and then stopped at the commit, which
\* returned nothing: the push was not attempted.
C6_Witness ==
    /\ lastOp.op = "automated_commit_push"
    /\ lastOp.steps = <<"ensure", "add", "commit">>
    /\ lastOp.ret.v.add = TRUE
    /\ lastOp.ret.v.commit = RNone
    /\ lastOp.pushed = <<>>

\* A working copy on the AI fix branch with nothing staged by name: the stage
\* step of the workflow fails there (add_all False, no file list).
OnTargetWorld ==
    [World EXCEPT !.head = TARGET, !.heads = {MAIN, TARGET}, !.tree = DirtyTree]

StageFailureResult ==
    AutomatedCommitPush(OnTargetWorld, bmTeam, bmLeader, <<"f","i","x">>,
                        FALSE, ORIGIN, NoFailure)

\* C7 as stated: the result tells a run that failed at ensure-branch from a
\* run that passed ensure-branch and failed at stage.
C7_AsStated ==
    (lastOp.op = "automated_commit_push" /\ lastOp.steps = <<"ensure">>) =>
        StepFields(lastOp.ret) # StepFields(StageFailureResult.ret)

\* C7 amended: the result records three steps, stage, commit and push: add is
\* True exactly when the commit was reached, commit is an identifier exactly
\* when the push was reached, push is True exactly when the push was made and
\* recorded; the ensure-branch step has no field, so a run that failed at
\* ensure-branch returns what a run that failed at stage returns (add False,
\* commit None, push False).
C7_ThreeSteps ==
    lastOp.op = "automated_commit_push" =>
        /\ lastOp.ret.t = "dict"
        /\ DOMAIN lastOp.ret.v = {"add", "commit", "push", "timestamp"}
        /\ lastOp.ret.v.add = ("commit" \in Range(lastOp.steps))
        /\ (lastOp.ret.v.commit # RNone) = ("push" \in Range(lastOp.steps))
        /\ lastOp.ret.v.commit # RNone => lastOp.ret.v.commit = RStr(ShortSha(commits))
        /\ lastOp.ret.v.push = (lastOp.pushed = <<TARGET>> /\ lastOp.saves = 2)
        /\ Len(lastOp.steps) <= 2 =>
              StepFields(lastOp.ret) = <<FALSE, RNone, FALSE>>
        /\ StepFields(StageFailureResult.ret) = <<FALSE, RNone, FALSE>>
        /\ StageFailureResult.w.steps = <<"ensure", "add">>

\* A run stopped at ensure-branch by a failed checkout of the base branch.
C7_Witness ==
    /\ lastOp.op = "automated_commit_push"
    /\ lastOp.steps = <<"ensure">>
    /\ lastOp.gitCalls = <<"checkout_base">>
    /\ StepFields(lastOp.ret) = <<FALSE, RNone, FALSE>>

\* False, None or an empty list
IsSentinel(r) ==
    CASE r.t = "bool" -> r.v = FALSE
      [] r.t = "none" -> TRUE
      [] r.t = "list" -> r.v = <<>>
      [] OTHER        -> FALSE

BoundaryOps ==
    {"create_branch", "list_branches", "delete_branch", "get_current_branch",
     "check_status", "add_files", "commit", "push", "pull"}

\* C8: no error of the underlying Git call escapes: create_branch,
\* list_branches, delete_branch, get_current_branch, check_status, add_files,
\* commit, push and pull return a sentinel (False, None, empty list) when the
\* call failed, and automated_commit_push returns a result mapping; none of
\* them raises.
C8_NoEscape ==
    /\ lastOp.op \in BoundaryOps =>
          /\ lastOp.exc = "none"
          /\ lastOp.caught # <<>> => IsSentinel(lastOp.ret)
    /\ lastOp.op = "automated_commit_push" =>
          /\ lastOp.exc = "none"
          /\ lastOp.ret.t = "dict"

\* The remote's push failed with an error that is no GitCommandError.
C8_Witness ==
    /\ lastOp.op = "push"
    /\ lastOp.pushed # <<>>
    /\ lastOp.caught = <<"Exception">>
    /\ lastOp.ret = RBool(FALSE)

----------------------------------------------------------------------------
(* The history files: the claims *)

RECURSIVE IsSubseq(_, _)
\* The entries of a are all in b, unmodified and in the same relative order.
IsSubseq(a, b) ==
    IF a = <<>> THEN TRUE
    ELSE IF b = <<>> THEN FALSE
    ELSE IF Head(a) = Head(b) THEN IsSubseq(Tail(a), Tail(b))
    ELSE IsSubseq(a, Tail(b))

IsSuffix(a, b) ==
    Len(a) <= Len(b) /\ SubSeq(b, Len(b) - Len(a) + 1, Len(b)) = a

\* The entries a history file holds.
Persisted(file) == IF file.kind = "array" THEN file.data ELSE <<>>

\* C2: the history files are append-only: an entry once persisted in a
\* history file is still there, unmodified and in the same relative order,
\* after every later operation (create_branch_entry, commit, push, the save_*
\* operations, the construction of a new manager on the same file).
C2_AppendOnly ==
    [][ /\ IsSubseq(Persisted(branchFile), Persisted(branchFile'))
        /\ IsSubseq(Persisted(autoFile), Persisted(autoFile'))
        /\ IsSubseq(Persisted(cloneFile), Persisted(cloneFile')) ]_vars

\* An append to the branch history starts: create_branch_entry is called.
BranchAppend == lastOp.op = "none" /\ lastOp'.op = "create_branch_entry"

\* An append to the commit/push history starts: a commit or a push reaches
\* _save_operation.
AutoAppend ==
    lastOp.op = "none" /\ lastOp'.op \in {"commit", "push"} /\ lastOp'.saves = 1

\* The file can be read as an array (missing: the empty one) and written.
Sound(file) == file.kind \in {"missing", "array"} /\ file.writable

\* C4: each append (create_branch_entry / _save_to_file, _save_operation)
\* turns a file holding the array H, or a missing file (H empty), into the
\* array H followed by the new entry; so the entries a single writer appended
\* are the last entries of its file, in the order they were appended, and
\* they are the whole file when it started missing or empty.
C4_AppendInOrder ==
    /\ [][ /\ (BranchAppend /\ Sound(branchFile)) =>
                 branchFile' = ArrayFile(Append(branchFile.data, lastOp'.ret.v), TRUE)
           /\ (AutoAppend /\ Sound(autoFile)) =>
                 autoFile' = ArrayFile(Append(autoFile.data, LastOf(autoMem')), TRUE)
         ]_vars
    /\ [](/\ Sound(branchFile) /\ branchFile.kind = "array" =>
                IsSuffix(branchMem, branchFile.data)
          /\ Sound(autoFile) /\ autoFile.kind = "array" =>
                IsSuffix(autoMem, autoFile.data))

\* Two entries appended one after the other by one BranchManager: the file
\* holds exactly the two, in the order of their creation.
C4_Witness ==
    /\ lastOp.op = "create_branch_entry"
    /\ Len(branchFile.data) = 2
    /\ branchFile.data = branchMem
    /\ branchFile.data[1].ts < branchFile.data[2].ts
    /\ branchFile.data[2] = lastOp.ret.v

\* C5 as stated: an append to a (writable) file whose content is blank or
\* malformed does not raise and leaves the file a valid array holding exactly
\* the new entry.
C5_AsStated ==
    [][ /\ (BranchAppend /\ branchFile.kind \in {"blank", "malformed"}
                         /\ branchFile.writable) =>
              /\ lastOp'.exc = "none"
              /\ branchFile' = ArrayFile(<<lastOp'.ret.v>>, TRUE)
        /\ (AutoAppend /\ autoFile.kind \in {"blank", "malformed"}
                       /\ autoFile.writable) =>
              /\ lastOp'.exc = "none"
              /\ autoFile' = ArrayFile(<<LastOf(autoMem')>>, TRUE)
      ]_vars

\* C5 amended: an append to a (writable) file whose content is blank treats
\* it as having no prior entries: it does not raise and afterwards the file
\* is the array of exactly the new entry.  An append to a file whose content
\* is malformed (no JSON, or JSON that is no array) does not raise either:
\* the error is caught inside the append, the file is left as it was, the
\* entry is not persisted and the operation returns its usual result.
C5_BlankOrMalformed ==
    [][ /\ (BranchAppend /\ branchFile.kind = "blank" /\ branchFile.writable) =>
              /\ lastOp'.exc = "none"
              /\ branchFile' = ArrayFile(<<lastOp'.ret.v>>, TRUE)
        /\ (BranchAppend /\ branchFile.kind \in {"malformed", "object"}) =>
              /\ lastOp'.exc = "none"
              /\ lastOp'.caught # <<>>
              /\ lastOp'.ret.t = "dict"
              /\ branchFile' = branchFile
        /\ (AutoAppend /\ autoFile.kind = "blank" /\ autoFile.writable) =>
              /\ lastOp'.exc = "none"
              /\ autoFile' = ArrayFile(<<LastOf(autoMem')>>, TRUE)
        /\ (AutoAppend /\ autoFile.kind \in {"malformed", "object"}) =>
              /\ lastOp'.exc = "none"
              /\ lastOp'.caught # <<>>
              /\ IF lastOp'.op = "commit" THEN lastOp'.ret.t = "str"
                                          ELSE lastOp'.ret = RBool(TRUE)
              /\ autoFile' = autoFile
      ]_vars

\* create_branch_entry on a branch history file that is no JSON: the parse
\* error was caught and the entry was returned to the caller.
C5_Witness ==
    /\ lastOp.op = "create_branch_entry"
    /\ branchFile.kind = "malformed"
    /\ branchFile.writable
    /\ lastOp.caught = <<"JSONDecodeError">>
    /\ lastOp.ret.t = "dict"
    /\ LastOf(branchMem) = lastOp.ret.v

----------------------------------------------------------------------------
(* The commit: the claims *)

\* The marker as the commit message is to carry it: followed by one space.
MarkerPrefix == MARKER \o <<" ">>

\* The number of places of s at which prefix occurs.
Occurrences(s, prefix) ==
    Cardinality({i \in 1..Len(s) : StartsWith(SubSeq(s, i, Len(s)), prefix)})

\* C11: whenever commit creates a commit, the committed message begins with
\* "[AI-AGENT] " (the marker and one space): a message without this prefix
\* gets it prepended, a message that has it is committed unchanged, and the
\* prefix is not put a second time.
C11_MarkerOnce ==
    (lastOp.op = "commit" /\ lastOp.committed # <<>>) =>
        LET given == lastOp.args.message
            made == lastOp.committed[1]
        IN  /\ StartsWith(made, MarkerPrefix)
            /\ made = IF StartsWith(given, MarkerPrefix) THEN given
                      ELSE MarkerPrefix \o given
            /\ Occurrences(made, MarkerPrefix) = 1

\* A call of commit starts.
CommitCall == lastOp.op = "none" /\ lastOp'.op = "commit"

\* C12: commit on a working copy with no staged and no modified changes
\* returns None and leaves the commit history and HEAD as they were; commit
\* on a working copy with staged changes, when the Git commit itself goes
\* through, creates exactly one commit and returns its non-empty short
\* identifier.
C12_CommitOrNothing ==
    [][ CommitCall =>
          /\ (~tree.staged /\ ~tree.modified) =>
                /\ lastOp'.ret = RNone
                /\ commits' = commits
                /\ head' = head
          /\ (tree.staged /\ lastOp'.committed # <<>>) =>
                /\ commits' = commits + 1
                /\ Len(lastOp'.committed) = 1
                /\ lastOp'.ret.t = "str"
                /\ lastOp'.ret.v # <<>>
      ]_vars

----------------------------------------------------------------------------
(* Cloning: the claims *)

\* A call of clone_repository starts.
CloneCall == lastOp.op = "none" /\ lastOp'.op = "clone_repository"

\* C13: every call of clone_repository adds exactly one record to the clone
\* history: a success record when the clone succeeded and, whatever the
\* failure (of the Git command, of the removal of the directory, any other),
\* a failure record, added before the error is raised to the caller.
C13_OneCloneRecord ==
    [][ CloneCall =>
          /\ Len(cloneMem') = Len(cloneMem) + 1
          /\ SubSeq(cloneMem', 1, Len(cloneMem)) = cloneMem
          /\ LastOf(cloneMem').branch = lastOp'.args.repo_url
          /\ LastOf(cloneMem').status =
                 (IF lastOp'.exc = "none" THEN "success" ELSE "failed")
      ]_vars

\* The directory of name n, when there is one
DirsNamed(dirs, n) == {d \in dirs : d.name = n}

\* The position of the first call of prim in the log of Git calls (0: none)
FirstCall(calls, prim) ==
    IF prim \in Range(calls)
    THEN CHOOSE i \in 1..Len(calls) :
             calls[i] = prim /\ \A j \in 1..(i - 1) : calls[j] # prim
    ELSE 0

\* C14: when the destination directory of a clone exists already, it is
\* removed with its contents before the clone is attempted; after a
\* successful clone the destination holds the freshly cloned files only, and
\* after a failed clone nothing of the prior copy is left either.
C14_FreshDestination ==
    [][ (CloneCall /\ DirsNamed(cloneDirs, RepoName(lastOp'.args.repo_url)) # {}) =>
          LET name == RepoName(lastOp'.args.repo_url)
              calls == lastOp'.gitCalls
          IN  /\ FirstCall(calls, "rmtree") = 1
              /\ "clone" \in Range(calls) =>
                     FirstCall(calls, "rmtree") < FirstCall(calls, "clone")
              /\ lastOp'.exc = "none" =>
                     /\ calls = <<"rmtree", "clone">>
                     /\ DirsNamed(cloneDirs', name) = {Dir(name, FreshFiles)}
              /\ ("clone" \in Range(calls) /\ lastOp'.exc # "none") =>
                     DirsNamed(cloneDirs', name) = {}
      ]_vars

\* A clone into a destination that held a prior copy with its marker file.
C14_Witness ==
    /\ lastOp.op = "clone_repository"
    /\ lastOp.exc = "none"
    /\ lastOp.gitCalls = <<"rmtree", "clone">>
    /\ lastOp.ret.v = <<"r">>
    /\ cloneDirs = {Dir(<<"r">>, FreshFiles)}
    /\ Len(cloneMem) = 1

\* The number of entries of seq that are x
Count(seq, x) == Cardinality({i \in 1..Len(seq) : seq[i] = x})

\* The URLs of the entries of a list of records that have the status
UrlsWith(records, field, status) ==
    LET kept == SelectSeq(records, LAMBDA r : r.status = status)
    IN  [i \in 1..Len(kept) |-> kept[i][field]]

\* C15: clone_multiple attempts every entry of its list in order and returns
\* one result per entry, in the order of the list; a result's status is
\* success exactly when the clone of its entry succeeded; the failure of an
\* entry does not keep the later ones from being attempted.
C15_BatchResults ==
    [][ (lastOp.op = "none" /\ lastOp'.op = "clone_multiple") =>
          LET list == lastOp'.args.repo_list
              results == lastOp'.ret.v
              added == SubSeq(cloneMem', Len(cloneMem) + 1, Len(cloneMem'))
          IN  /\ lastOp'.exc = "none"
              /\ Len(results) = Len(list)
              /\ \A i \in 1..Len(list) :
                    /\ results[i].repo = list[i]
                    /\ results[i].status \in {"success", "failed"}
              /\ UrlsWith(results, "repo", "success")
                     = UrlsWith(added, "branch", "success")
              /\ Len(UrlsWith(results, "repo", "failed")) = Len(lastOp'.caught)
              /\ Count(lastOp'.gitCalls, "clone")
                     = Len(list) - Count(lastOp'.caught, "OSError")
              /\ \A i \in 1..Len(list) :
                    (results[i].status = "success"
                       /\ \A j \in (i + 1)..Len(list) : RepoName(list[j]) # RepoName(list[i]))
                    => Dir(RepoName(list[i]), FreshFiles) \in cloneDirs'
      ]_vars

\* A batch of two whose first clone failed and whose second succeeded.
C15_Witness ==
    /\ lastOp.op = "clone_multiple"
    /\ Len(lastOp.ret.v) = 2
    /\ lastOp.ret.v[1].status = "failed"
    /\ lastOp.ret.v[2].status = "success"
    /\ lastOp.caught = <<"GitCommandError">>
    /\ Count(lastOp.gitCalls, "clone") = 2

\* The final '/'-separated segment of the URL
FinalSegment(url) ==
    LET slashes == {i \in 1..Len(url) : url[i] = "/"}
        last == IF slashes = {} THEN 0
                ELSE CHOOSE i \in slashes : \A j \in slashes : j <= i
    IN  SubSeq(url, last + 1, Len(url))

\* s without a trailing ".git"
WithoutGitSuffix(s) ==
    IF Len(s) >= 4 /\ SubSeq(s, Len(s) - 3, Len(s)) = <<".","g","i","t">>
    THEN SubSeq(s, 1, Len(s) - 4)
    ELSE s

\* C20: the directory clone_repository uses is the final segment of the URL
\* with a trailing ".git" removed and nothing else changed, and its name is
\* never empty.
C20_DirectoryName ==
    (lastOp.op = "clone_repository" /\ lastOp.exc = "none") =>
        /\ lastOp.ret.v = WithoutGitSuffix(FinalSegment(lastOp.args.repo_url))
        /\ lastOp.ret.v # <<>>
        /\ \E d \in cloneDirs : d.name = lastOp.ret.v

----------------------------------------------------------------------------
(* The AI fix branch: the claims *)

EnsureCall == lastOp.op = "none" /\ lastOp'.op = "ensure_ai_fix_branch"

\* The canonical branch of a call of ensure_ai_fix_branch
EnsureTarget(args) ==
    GenerateBranchName(bmTeam, bmLeader,
        IF args.team_name \in {NONE, <<>>} THEN GA_TEAM_NAME ELSE args.team_name,
        IF args.leader_name \in {NONE, <<>>} THEN GA_LEADER_NAME ELSE args.leader_name)

\* C16: ensure_ai_fix_branch raises only when create_branch returned failure:
\* already on the canonical branch it returns at once, with no checkout, pull
\* or creation; in no other situation does it raise without having attempted
\* create_branch.
C16_RaisesOnlyAfterCreate ==
    [][ EnsureCall =>
          /\ head = EnsureTarget(lastOp'.args) =>
                /\ lastOp'.exc = "none"
                /\ lastOp'.ret = RStr(head)
                /\ lastOp'.gitCalls = <<>>
          /\ lastOp'.exc # "none" =>
                /\ lastOp'.exc = "RuntimeError"
                /\ bmRepo => "checkout_base" \in Range(lastOp'.gitCalls)
      ]_vars

\* C17: the branch create_ai_branch_and_commit creates first and reports in
\* the branch field of its result is the branch its workflow ensures, commits
\* on and pushes, whether the names are given or defaulted.
C17_OneBranch ==
    (/\ lastOp.op = "create_ai_branch_and_commit"
     /\ lastOp.exc = "none"
     /\ "add" \in DOMAIN lastOp.ret.v
     /\ "add" \in Range(lastOp.steps)) =>
        /\ head = lastOp.ret.v.branch
        /\ \A i \in 1..Len(lastOp.pushed) : lastOp.pushed[i] = lastOp.ret.v.branch

----------------------------------------------------------------------------
(* History recording and the outcome of the operations *)

\* What reading, parsing or writing a history file raises
FileErrors == {"JSONDecodeError", "AttributeError", "OSError"}

\* The recording of the last operation failed.
RecordingFailed ==
    /\ lastOp.saves > 0
    /\ Range(lastOp.caught) \cap FileErrors # {}

\* C18: a failure to record in a history file (a file that cannot be written,
\* content that cannot be parsed) does not change what the operation returns:
\* commit returns the identifier of its commit, push returns True,
\* create_branch_entry returns its entry, and no exception reaches the caller.
C18_RecordingNeverDecides ==
    RecordingFailed =>
        /\ lastOp.exc = "none"
        /\ lastOp.op = "commit" =>
              /\ lastOp.ret = RStr(ShortSha(commits))
              /\ Len(lastOp.committed) = 1
        /\ lastOp.op = "push" =>
              /\ lastOp.ret = RBool(TRUE)
              /\ Len(lastOp.pushed) = 1
        /\ lastOp.op = "create_branch_entry" =>
              /\ lastOp.ret.t = "dict"
              /\ lastOp.ret.v = LastOf(branchMem)

\* A commit whose record could not be written to the history file.
C18_Witness ==
    /\ lastOp.op = "commit"
    /\ lastOp.caught = <<"OSError">>
    /\ ~autoFile.writable
    /\ lastOp.ret = RStr(ShortSha(1))
    /\ commits = 1

----------------------------------------------------------------------------
(* Creating a branch: the claim *)

CreateCall == lastOp.op = "none" /\ lastOp'.op = "create_branch"

\* calls without the entries that are not in prims
Only(calls, prims) == SelectSeq(calls, LAMBDA c : c \in prims)

\* C19: when create_branch reports success, branch_name is a local branch;
\* the branches there were are all still there and a branch of that name that
\* existed was not created again; the working copy is on branch_name when
\* checkout was asked for and on base_branch otherwise; a branch that did not
\* exist was created from the base branch, after the checkout of the base
\* branch and the pull from the remote.
C19_CreateBranchSuccess ==
    [][ (CreateCall /\ lastOp'.ret = RBool(TRUE)) =>
          LET branch_name == lastOp'.args.branch_name
              base_branch == lastOp'.args.base_branch
              calls == lastOp'.gitCalls
          IN  /\ branch_name \in heads'
              /\ heads' = heads \cup {branch_name}
              /\ branch_name \in heads => "create_head" \notin Range(calls)
              /\ head' = IF lastOp'.args.checkout THEN branch_name ELSE base_branch
              /\ base_branch \in heads
              /\ branch_name \notin heads =>
                    Only(calls, {"checkout_base", "pull", "create_head"})
                        = IF hasRemote
                          THEN <<"checkout_base", "pull", "create_head">>
                          ELSE <<"checkout_base", "create_head">>
              /\ Only(calls, {"checkout"})
                     = IF lastOp'.args.checkout THEN <<"checkout">> ELSE <<>>
              /\ LastOf(branchMem').branch = branch_name
      ]_vars

\* A branch that exists already is asked for again, with checkout.
C19_Witness ==
    /\ lastOp.op = "create_branch"
    /\ lastOp.ret = RBool(TRUE)
    /\ lastOp.args.checkout
    /\ lastOp.args.branch_name = DEV
    /\ lastOp.gitCalls = <<"checkout_base", "checkout">>
    /\ head = DEV
    /\ heads = {MAIN, DEV}
    /\ ~hasRemote

\* A branch that did not exist is created without checkout.
C19_WitnessNew ==
    /\ lastOp.op = "create_branch"
    /\ lastOp.ret = RBool(TRUE)
    /\ ~lastOp.args.checkout
    /\ lastOp.gitCalls = <<"checkout_base", "pull", "create_head">>
    /\ head = MAIN
    /\ lastOp.args.branch_name \in heads

----------------------------------------------------------------------------
(* The workflow and the protected branches: the claim *)

\* The workflow got as far as its push step.
ReachedPush ==
    /\ lastOp.op = "automated_commit_push"
    /\ "push" \in Range(lastOp.steps)

\* The guard of push refused the branch: push returned False with no call to
\* the remote and with nothing raised.
GuardFired ==
    /\ ReachedPush
    /\ "push" \notin Range(lastOp.gitCalls)
    /\ lastOp.caught = <<>>
    /\ ~lastOp.ret.v.push

\* C22: whenever automated_commit_push reaches its push step the working copy
\* is on the canonical AI fix branch, so the branch handed to the remote is
\* never main or master and the guard of the protected branches does not
\* fire inside the workflow, whatever branch the workflow started on.
C22_WorkflowNeverPushesProtected ==
    ReachedPush =>
        /\ head = TARGET
        /\ ~Protected(head)
        /\ \A i \in 1..Len(lastOp.pushed) :
              lastOp.pushed[i] = TARGET /\ ~Protected(lastOp.pushed[i])
        /\ ~GuardFired
        /\ lastOp.ret.v.push = (lastOp.pushed = <<TARGET>> /\ lastOp.caught = <<>>)

\* A workflow started on main that created the AI fix branch and pushed it.
C22_Witness ==
    /\ ReachedPush
    /\ lastOp.gitCalls = <<"checkout_base", "pull", "create_head", "checkout",
                           "add", "commit", "push">>
    /\ lastOp.pushed = <<TARGET>>
    /\ lastOp.ret.v.push
    /\ heads = {MAIN, TARGET}
    /\ head = TARGET

----------------------------------------------------------------------------
(* Several writers of one history file: the claim *)

\* A record that a process saved without error is not in the file.
LostUpdate ==
    \E p \in DOMAIN writers : \E i \in 1..Len(writers[p].saved) :
        writers[p].saved[i] \notin Range(Persisted(autoFile))

\* C21: two processes whose read-modify-write appends to one history file
\* interleave can both complete without error and leave only one of the two
\* records in the file (a lost update); a single writer never loses a record,
\* and no record is lost unless two saves overlapped.
C21_LostOnlyByOverlap ==
    /\ Len(writers) = 1 => ~LostUpdate
    /\ LostUpdate => \E p \in DOMAIN writers : writers[p].overlap

\* Two processes each saved one record without error, and the file holds one
\* record only.
C21_Witness ==
    /\ Len(writers) = 2
    /\ \A p \in DOMAIN writers :
          /\ writers[p].pc = "idle"
          /\ writers[p].errors = 0
          /\ Len(writers[p].saved) = 1
    /\ writers[1].saved # writers[2].saved
    /\ Len(Persisted(autoFile)) = 1
    /\ LostUpdate

====
